---------------------------- MODULE Spec2Model ----------------------------
(***************************************************************************)
(* A model of the training cells, the autodiff demo cells and the          *)
(* tensor/ndarray conversion cell of class_tutorial.ipynb.                 *)
(*                                                                         *)
(* Numbers are exact rationals <<n, d>> (d > 0, lowest terms): the model   *)
(* follows the arithmetic the cells write down, not the rounding of the    *)
(* float64 / float32 types that carry it.                                  *)
(***************************************************************************)
EXTENDS Integers, Sequences, FiniteSets, TLC

(***************************************************************************)
(* Bounds of the model and constants of the notebook.                      *)
(***************************************************************************)
\* n_samples is 100 in the dataset cell; the model trains on fewer examples.
NumSamples == 2
\* train(..., epochs=...) is 100 in the cells; the model runs fewer epochs.
MaxEpochs == 2
\* n_features=2 / input_dim=2 in the three training cells.
NumFeatures == 2
\* torch.arange(4.0): the length of x in the autodiff demo.
DemoLen == 4
\* X has 8 elements; the model's buffers hold fewer.
Numel == 4
\* The n_targets the constructors are called with range over 1..MaxTargets.
MaxTargets == 3
\* The MLP cell is executed up to MaxMlpRuns times.
MaxMlpRuns == 2

(***************************************************************************)
(* Exact rational arithmetic.                                              *)
(***************************************************************************)
Abs(i) == IF i < 0 THEN -i ELSE i

RECURSIVE Gcd(_, _)
Gcd(a, b) == IF b = 0 THEN a ELSE Gcd(b, a % b)

Norm(n, d) ==
  LET g == Gcd(Abs(n), Abs(d))
      s == IF d < 0 THEN -1 ELSE 1
  IN  <<s * (n \div g), s * (d \div g)>>

R(i) == <<i, 1>>
Zero == R(0)
One == R(1)

RAdd(p, q) ==
  LET g == Gcd(p[2], q[2])
  IN  Norm(p[1] * (q[2] \div g) + q[1] * (p[2] \div g), (p[2] \div g) * q[2])
RNeg(p) == <<-p[1], p[2]>>
RSub(p, q) == RAdd(p, RNeg(q))
RMul(p, q) ==
  LET a == Norm(p[1], q[2])
      b == Norm(q[1], p[2])
  IN  <<a[1] * b[1], a[2] * b[2]>>
RDivInt(p, k) == RMul(p, Norm(1, k))

(***************************************************************************)
(* Vectors are sequences of rationals, matrices sequences of rows.         *)
(***************************************************************************)
RECURSIVE RSum(_)
RSum(v) == IF v = <<>> THEN Zero ELSE RAdd(v[1], RSum(Tail(v)))

Rows(M) == Len(M)
Cols(M) == IF M = <<>> THEN 0 ELSE Len(M[1])
Column(M, j) == [i \in 1..Rows(M) |-> M[i][j]]
Transpose(M) == [j \in 1..Cols(M) |-> Column(M, j)]
VDot(u, v) == RSum([k \in 1..Len(u) |-> RMul(u[k], v[k])])
VSub(u, v) == [k \in 1..Len(u) |-> RSub(u[k], v[k])]
VScale(c, v) == [k \in 1..Len(v) |-> RMul(c, v[k])]
VZeros(n) == [k \in 1..n |-> Zero]
\* np.dot / torch.matmul of two matrices raise unless the inner dimensions agree.
Conformable(A, B) == Cols(A) = Rows(B)
\* np.dot / torch.matmul of conformable matrices.
MatMul(A, B) ==
  [i \in 1..Rows(A) |-> [j \in 1..Cols(B) |-> VDot(A[i], Column(B, j))]]
\* np.dot of a matrix and a vector.
MatVec(A, v) == [i \in 1..Rows(A) |-> VDot(A[i], v)]
\* squeeze(-1) of an (m, 1) matrix.
Squeeze(M) == Column(M, 1)
\* ndarray.squeeze(-1) raises unless the last dimension is 1; Tensor.squeeze(-1)
\* returns the tensor as it is.
Squeezable(M) == Cols(M) = 1


(***************************************************************************)
(* State.                                                                  *)
(*   X, y        the globals bound by the dataset cell (rebound by the     *)
(*               Full PyTorch cell)                                        *)
(*   use_bias    the flag of the NumPy cell                                *)
(*   epochs      the epochs argument of the train calls                    *)
(*   n_targets   the n_targets argument of the two constructors            *)
(*   names       what the global names X, y and X_np are bound to: an      *)
(*               ndarray, a tensor, or nothing                             *)
(*   mlp         the MLP cell: how often it has run and how it ended       *)
(*   X_np        the NumPy cell's design matrix                            *)
(*   linreg      the LinearRegression instance and its train() frame      *)
(*   X_pt, y_pt  the autograd cell's tensors                               *)
(*   mixedreg    the MixedLinearRegression instance and its train() frame  *)
(*   linmod      the LinReg module, its SGD optimizer and train() frame    *)
(*   demo        the autodiff demo cells: x, x.grad, y, u, z               *)
(*   conv        the conversion cell: X, A, B and the buffers they view    *)
(***************************************************************************)
VARIABLES use_bias, X, y, epochs, n_targets, names, mlp, X_np, linreg, X_pt, y_pt, mixedreg, linmod,
          demo, conv

dataVars == <<use_bias, X, y, epochs, n_targets, names, mlp>>
trainVars == <<X_np, linreg, X_pt, y_pt, mixedreg, linmod>>
vars == <<use_bias, X, y, epochs, n_targets, names, mlp, X_np, linreg, X_pt, y_pt, mixedreg, linmod,
          demo, conv>>

\* An unset attribute (.grad before the first backward).
None == <<>>

\* lr=0.01 in the three training cells (and the constructors' default).
lr == <<1, 100>>

(***************************************************************************)
(* class LinearRegression (NumPy, no autodiff).                            *)
(***************************************************************************)
\* np.zeros((n_targets, n_features))
NpInitW(n_tgts, n_features) == [t \in 1..n_tgts |-> VZeros(n_features)]

\* predict: np.dot(X, self.W.T).squeeze(-1)
NpPredict(W, Xm) == Squeeze(MatMul(Xm, Transpose(W)))

\* loss: np.mean(np.power(y_hat - y, 2))
MeanSq(y_hat, yv) ==
  LET d == VSub(y_hat, yv)
  IN  RDivInt(RSum([k \in 1..Len(d) |-> RMul(d[k], d[k])]), Len(d))

NpLoss(W, Xm, yv) == MeanSq(NpPredict(W, Xm), yv)

\* Variant: W_grad without the factor 2.
NpWGrad_NoFactor2(W, Xm, yv) ==
  LET m == Rows(Xm)
      y_hat == NpPredict(W, Xm)
      XTd == MatVec(Transpose(Xm), VSub(y_hat, yv))
  IN  [j \in 1..Len(XTd) |-> RDivInt(XTd[j], m)]

\* W_grad = 2 * np.dot(X.T, y_hat - y) / m
NpWGrad(W, Xm, yv) ==
  LET m == Rows(Xm)
      y_hat == NpPredict(W, Xm)
      XTd == MatVec(Transpose(Xm), VSub(y_hat, yv))
  IN  [j \in 1..Len(XTd) |-> RDivInt(RMul(R(2), XTd[j]), m)]

\* self.W = self.W - self.lr * W_grad   (W_grad broadcast over the rows of W)
NpStepW(W, g) == [r \in 1..Rows(W) |-> VSub(W[r], VScale(lr, g))]

NpUpdateW(W, Xm, yv) == NpStepW(W, NpWGrad(W, Xm, yv))

\* np.hstack([np.ones((n_samples, 1)), X])
HStackOnes(Xm) == [i \in 1..Rows(Xm) |-> <<One>> \o Xm[i]]

(***************************************************************************)
(* class MixedLinearRegression (autograd).                                 *)
(***************************************************************************)
\* torch.zeros(n_targets, n_features, requires_grad=True)
MxInitW(n_tgts, n_features) == [t \in 1..n_tgts |-> VZeros(n_features)]

\* predict: torch.matmul(X, self.W.t()).squeeze(-1)
MxPredict(W, Xm) == Squeeze(MatMul(Xm, Transpose(W)))

\* loss: torch.mean(torch.pow(y_hat - y, 2))
MxLoss(W, Xm, yv) == MeanSq(MxPredict(W, Xm), yv)

\* Variant: the backward of mean without its 1/m.
MxBackwardGrad_SumNotMean(W, Xm, yv) ==
  LET m == Rows(Xm)
      d == VSub(MxPredict(W, Xm), yv)
      gPow == [i \in 1..m |-> RMul(R(2), d[i])]
      gYhat == [i \in 1..m |-> <<gPow[i]>>]
      gWt == MatMul(Transpose(Xm), gYhat)
  IN  Transpose(gWt)

\* loss.backward(): reverse mode through mean, pow, sub, squeeze, matmul, t.
MxBackwardGrad(W, Xm, yv) ==
  LET m == Rows(Xm)
      d == VSub(MxPredict(W, Xm), yv)
      gMean == [i \in 1..m |-> RDivInt(One, m)]
      gPow == [i \in 1..m |-> RMul(gMean[i], RMul(R(2), d[i]))]
      gYhat == [i \in 1..m |-> <<gPow[i]>>]
      gWt == MatMul(Transpose(Xm), gYhat)
  IN  Transpose(gWt)

\* For n_targets > 1 squeeze(-1) changes nothing and predict returns the
\* (m, n_targets) matrix; y_hat - y then broadcasts y of shape (m) along the
\* last dimension, which torch allows if n_targets = m or m = 1.
MxPredictMat(W, Xm) == MatMul(Xm, Transpose(W))
Broadcastable(cols, n) == cols = n \/ n = 1
BroadcastRow(yv, cols) == [t \in 1..cols |-> IF Len(yv) = 1 THEN yv[1] ELSE yv[t]]
MxResidualMat(W, Xm, yv) ==
  LET P == MxPredictMat(W, Xm)
      b == BroadcastRow(yv, Rows(W))
  IN  [i \in 1..Rows(Xm) |-> VSub(P[i], b)]
MxLossMat(W, Xm, yv) ==
  LET D == MxResidualMat(W, Xm, yv)
  IN  RDivInt(RSum([i \in 1..Rows(D) |-> VDot(D[i], D[i])]), Rows(D) * Cols(D))
MxBackwardGradMat(W, Xm, yv) ==
  LET D == MxResidualMat(W, Xm, yv)
      G == [i \in 1..Rows(D) |->
              [t \in 1..Cols(D) |-> RDivInt(RMul(R(2), D[i][t]), Rows(D) * Cols(D))]]
  IN  MatMul(Transpose(G), Xm)

MAdd(A, B) == [r \in 1..Rows(A) |-> [c \in 1..Cols(A) |-> RAdd(A[r][c], B[r][c])]]
\* Variant: a zero_() that zeroes nothing.
MZeros_Keep(A) == A
MZeros(A) == [r \in 1..Rows(A) |-> VZeros(Cols(A))]

\* autograd accumulates into .grad: it is set when unset, added to otherwise.
Accumulate(grad, g) == IF grad = None THEN g ELSE MAdd(grad, g)

\* update_weight: self.W.data = self.W.data - self.lr * self.W.grad.data
MxStepW(W, grad) == [r \in 1..Rows(W) |-> VSub(W[r], VScale(lr, grad[r]))]


(***************************************************************************)
(* class LinReg(nn.Module), nn.MSELoss and optim.SGD (Full PyTorch cell).  *)
(* Parameters: beta.weight of shape (1, input_dim), beta.bias of shape (1).*)
(***************************************************************************)
\* forward: self.beta(X) = X.weight^T + bias, of shape (n_samples, 1)
PtForwardOut(weight, bias, Xm) ==
  LET XW == MatMul(Xm, Transpose(weight))
  IN  [i \in 1..Rows(Xm) |-> <<RAdd(XW[i][1], bias[1])>>]

\* nn.MSELoss(): the mean over all elements of (y_ - y)^2
PtMSELoss(y_, ym) == MeanSq(Column(y_, 1), Column(ym, 1))

\* loss.backward(): the gradient of the loss with respect to y_
PtGradOut(weight, bias, Xm, ym) ==
  LET m == Rows(Xm)
      y_ == PtForwardOut(weight, bias, Xm)
  IN  [i \in 1..m |-> <<RDivInt(RMul(R(2), RSub(y_[i][1], ym[i][1])), m)>>]

\* ... with respect to beta.weight: gradOut^T . X, of shape (1, input_dim)
PtWeightGrad(weight, bias, Xm, ym) ==
  MatMul(Transpose(PtGradOut(weight, bias, Xm, ym)), Xm)

\* ... with respect to beta.bias: gradOut summed over the examples, shape (1)
PtBiasGrad(weight, bias, Xm, ym) ==
  <<RSum(Column(PtGradOut(weight, bias, Xm, ym), 1))>>

\* optimizer.zero_grad(): a set gradient is zeroed (or, with set_to_none,
\* unset); an unset gradient stays unset.
ZeroGrad(grad, zeros, set_to_none) ==
  IF grad = None \/ set_to_none THEN None ELSE zeros

VAdd(u, v) == [k \in 1..Len(u) |-> RAdd(u[k], v[k])]
AccumulateVec(grad, g) == IF grad = None THEN g ELSE VAdd(grad, g)

\* Variant: a step that leaves the bias alone.
SGDStepBias_Skip(bias, grad) == bias

\* optimizer.step() of plain SGD (no momentum, no weight decay):
\* p = p - lr * p.grad for every parameter p that has a gradient.
SGDStepBias(bias, grad) ==
  IF grad = None THEN bias ELSE VSub(bias, VScale(lr, grad))
SGDStepWeight(weight, grad) ==
  IF grad = None THEN weight
  ELSE [r \in 1..Rows(weight) |-> VSub(weight[r], VScale(lr, grad[r]))]


(***************************************************************************)
(* Inputs.                                                                 *)
(***************************************************************************)
\* Feature rows and labels the dataset is drawn from (make_moons labels are
\* 0 and 1).
FeatureRows == {<<R(5), R(0)>>, <<R(0), R(5)>>, <<R(-5), R(5)>>}
Labels == {Zero, One}
\* Initial values of beta.weight (nn.Linear draws them from
\* U(-1/sqrt(2), 1/sqrt(2))); beta.bias starts inside the same interval.
InitBetaWeights == {<<Zero, Zero>>, <<<<1, 5>>, <<-1, 5>>>>}
InitBetaBias == <<Zero>>

\* torch.from_numpy accepts an ndarray only (TypeError otherwise); np.dot and
\* np.hstack convert their arguments to ndarrays, which a tensor that
\* requires grad refuses (RuntimeError).
IsNdarray(kind) == kind = "ndarray"

\* The dataset cell binds X and y to ndarrays; X_np is bound by the NumPy cell.
DatasetNames == [X |-> "ndarray", y |-> "ndarray", X_np |-> "unbound"]
NoNames == [X |-> "unbound", y |-> "unbound", X_np |-> "unbound"]
NoMlp == [runs |-> 0, pc |-> "start"]

Ended == {"done", "NameError", "ValueError", "RuntimeError", "AttributeError",
          "TypeError"}

NewLinReg == [pc |-> "start", W |-> None, i |-> 0, loss_history |-> <<>>]
NewMixed ==
  [pc |-> "start", W |-> None, grad |-> None, loss |-> None, i |-> 0,
   loss_history |-> <<>>]
NewLinMod ==
  [pc |-> "start", weight |-> None, bias |-> None, wgrad |-> None,
   bgrad |-> None, loss |-> None, i |-> 0, loss_history |-> <<>>,
   set_to_none |-> FALSE]

(***************************************************************************)
(* The NumPy cell.                                                         *)
(***************************************************************************)
\* use_bias branch and model = LinearRegression(n_features=2, ...); the call
\* model.train(X_np, y, epochs) starts with an empty loss_history.
\* n_features is bound nowhere in the notebook, so n_features += 1 raises.
\* np.hstack of a tensor that requires grad raises before X_np is bound.
NpCell ==
  /\ IF use_bias
       THEN IF IsNdarray(names.X)
              THEN /\ X_np' = HStackOnes(X)
                   /\ names' = [names EXCEPT !.X_np = "ndarray"]
                   /\ linreg' = [linreg EXCEPT !.pc = "NameError"]
              ELSE /\ linreg' = [linreg EXCEPT !.pc = "RuntimeError"]
                   /\ UNCHANGED <<X_np, names>>
       ELSE /\ X_np' = X
            /\ names' = [names EXCEPT !.X_np = names.X]
            /\ linreg' = [pc |-> "loop", W |-> NpInitW(n_targets, NumFeatures), i |-> 0,
                          loss_history |-> <<>>]
  /\ UNCHANGED <<use_bias, X, y, epochs, n_targets, mlp, X_pt, y_pt, mixedreg,
                 linmod, demo, conv>>

NpCellSetup ==
  /\ linreg.pc = "start"
  /\ X # None
  /\ NpCell

\* Variant: a loop that runs one iteration more than range(epochs).
NpUpdateWeight_OneMore ==
  /\ linreg.pc = "loop"
  /\ linreg.i <= epochs
  /\ linreg' = [linreg EXCEPT !.W = NpUpdateW(linreg.W, X_np, y),
                              !.i = @ + 1, !.pc = "loss"]
  /\ UNCHANGED <<dataVars, X_np, X_pt, y_pt, mixedreg, linmod, demo, conv>>

\* for _ in range(epochs): self.update_weight(X, y)
NpUpdateWeight ==
  /\ linreg.pc = "loop"
  /\ linreg.i < epochs
  /\ IF ~IsNdarray(names.X_np)
       THEN linreg' = [linreg EXCEPT !.i = @ + 1, !.pc = "RuntimeError"]
       ELSE IF /\ Conformable(X_np, Transpose(linreg.W))
               /\ Squeezable(MatMul(X_np, Transpose(linreg.W)))
              THEN linreg' = [linreg EXCEPT !.W = NpUpdateW(linreg.W, X_np, y),
                                            !.i = @ + 1, !.pc = "loss"]
              ELSE linreg' = [linreg EXCEPT !.i = @ + 1, !.pc = "ValueError"]
  /\ UNCHANGED <<dataVars, X_np, X_pt, y_pt, mixedreg, linmod, demo, conv>>

\* y_hat = self.predict(X); loss = self.loss(y_hat, y); loss_history.append(loss)
NpAppendLoss ==
  /\ linreg.pc = "loss"
  /\ linreg' = [linreg EXCEPT
                  !.loss_history = Append(@, NpLoss(linreg.W, X_np, y)),
                  !.pc = "loop"]
  /\ UNCHANGED <<dataVars, X_np, X_pt, y_pt, mixedreg, linmod, demo, conv>>

\* range(epochs) is exhausted: return loss_history; the cell goes on with
\* y_hat = model.predict(X_np), whose np.dot refuses a tensor X_np.
NpReturn ==
  /\ linreg.pc = "loop"
  /\ linreg.i = epochs
  /\ linreg' = [linreg EXCEPT
                  !.pc = IF IsNdarray(names.X_np) THEN "done" ELSE "RuntimeError"]
  /\ UNCHANGED <<dataVars, X_np, X_pt, y_pt, mixedreg, linmod, demo, conv>>

(***************************************************************************)
(* The autograd cell.                                                      *)
(***************************************************************************)
\* X_pt, y_pt = torch.from_numpy(...).float(): the dataset's values are exact
\* in float32; model = MixedLinearRegression(n_features=2, ...).
MxCell ==
  /\ IF ~IsNdarray(names.X_np)
       THEN /\ mixedreg' = [mixedreg EXCEPT
                              !.pc = IF names.X_np = "unbound" THEN "NameError"
                                     ELSE "TypeError"]
            /\ UNCHANGED <<X_pt, y_pt>>
       ELSE IF ~IsNdarray(names.y)
              THEN /\ X_pt' = X_np
                   /\ mixedreg' = [mixedreg EXCEPT !.pc = "TypeError"]
                   /\ UNCHANGED y_pt
              ELSE /\ X_pt' = X_np
                   /\ y_pt' = y
                   /\ mixedreg' = [pc |-> "loop", W |-> MxInitW(n_targets, NumFeatures),
                                   grad |-> None, loss |-> None, i |-> 0,
                                   loss_history |-> <<>>]
  /\ UNCHANGED <<dataVars, X_np, linreg, linmod, demo, conv>>

MxCellSetup ==
  /\ mixedreg.pc = "start"
  /\ linreg.pc \in Ended
  /\ MxCell

\* y_hat = self.predict(X); loss = self.loss(y_hat, y)
MxForward ==
  /\ mixedreg.pc = "loop"
  /\ mixedreg.i < epochs
  /\ IF /\ Conformable(X_pt, Transpose(mixedreg.W))
        /\ Rows(mixedreg.W) # 1 => Broadcastable(Rows(mixedreg.W), Len(y_pt))
       THEN mixedreg' = [mixedreg EXCEPT
                           !.loss = IF Rows(mixedreg.W) = 1
                                      THEN MxLoss(mixedreg.W, X_pt, y_pt)
                                      ELSE MxLossMat(mixedreg.W, X_pt, y_pt),
                           !.i = @ + 1, !.pc = "backward"]
       ELSE mixedreg' = [mixedreg EXCEPT !.i = @ + 1, !.pc = "RuntimeError"]
  /\ UNCHANGED <<dataVars, X_np, linreg, X_pt, y_pt, linmod, demo, conv>>

\* loss.backward(); loss_history.append(loss.item())
MxBackward ==
  /\ mixedreg.pc = "backward"
  /\ mixedreg' = [mixedreg EXCEPT
                    !.grad = Accumulate(@, IF Rows(mixedreg.W) = 1
                                             THEN MxBackwardGrad(mixedreg.W, X_pt, y_pt)
                                             ELSE MxBackwardGradMat(mixedreg.W, X_pt, y_pt)),
                    !.loss_history = Append(@, mixedreg.loss),
                    !.pc = "update"]
  /\ UNCHANGED <<dataVars, X_np, linreg, X_pt, y_pt, linmod, demo, conv>>

\* self.update_weight(); W.grad.data of an unset W.grad raises
MxUpdateWeight ==
  /\ mixedreg.pc = "update"
  /\ IF mixedreg.grad = None
       THEN mixedreg' = [mixedreg EXCEPT !.pc = "AttributeError"]
       ELSE mixedreg' = [mixedreg EXCEPT
                           !.W = MxStepW(mixedreg.W, mixedreg.grad),
                           !.pc = "zero"]
  /\ UNCHANGED <<dataVars, X_np, linreg, X_pt, y_pt, linmod, demo, conv>>

\* self.W.grad.data.zero_()
MxZeroGrad ==
  /\ mixedreg.pc = "zero"
  /\ mixedreg' = [mixedreg EXCEPT !.grad = MZeros(@), !.pc = "loop"]
  /\ UNCHANGED <<dataVars, X_np, linreg, X_pt, y_pt, linmod, demo, conv>>

MxReturn ==
  /\ mixedreg.pc = "loop"
  /\ mixedreg.i = epochs
  /\ mixedreg' = [mixedreg EXCEPT !.pc = "done"]
  /\ UNCHANGED <<dataVars, X_np, linreg, X_pt, y_pt, linmod, demo, conv>>


(***************************************************************************)
(* The Full PyTorch cell.                                                  *)
(***************************************************************************)
\* X = torch.from_numpy(X)...float(); y = torch.from_numpy(y).reshape(
\* (n_samples, 1)).float(); model = LinReg(input_dim=2); optimizer =
\* optim.SGD(model.parameters(), lr=0.01); train(model, X, y, epochs) starts.
\* Whether zero_grad() unsets or zeroes the gradients depends on the
\* installed torch.
PtCell ==
  /\ IF ~IsNdarray(names.X)
       THEN /\ linmod' = [linmod EXCEPT !.pc = "TypeError"]
            /\ UNCHANGED <<y, names>>
       ELSE IF ~IsNdarray(names.y)
              THEN /\ names' = [names EXCEPT !.X = "tensor"]
                   /\ linmod' = [linmod EXCEPT !.pc = "TypeError"]
                   /\ UNCHANGED y
              ELSE /\ y' = [i \in 1..Len(y) |-> <<y[i]>>]
                   /\ names' = [names EXCEPT !.X = "tensor", !.y = "tensor"]
                   /\ \E w \in InitBetaWeights, stn \in BOOLEAN :
                        linmod' = [pc |-> "loop", weight |-> <<w>>, bias |-> InitBetaBias,
                                   wgrad |-> None, bgrad |-> None, loss |-> None,
                                   i |-> 0, loss_history |-> <<>>, set_to_none |-> stn]
  /\ UNCHANGED <<use_bias, X, epochs, n_targets, mlp, X_np, linreg, X_pt, y_pt,
                 mixedreg, demo, conv>>

PtCellSetup ==
  /\ linmod.pc = "start"
  /\ mixedreg.pc \in Ended
  /\ PtCell

\* for _ in range(epochs): optimizer.zero_grad()
PtZeroGrad ==
  /\ linmod.pc = "loop"
  /\ linmod.i < epochs
  /\ linmod' = [linmod EXCEPT
                  !.wgrad = ZeroGrad(@, MZeros(linmod.weight), linmod.set_to_none),
                  !.bgrad = ZeroGrad(@, VZeros(Len(linmod.bias)), linmod.set_to_none),
                  !.i = @ + 1, !.pc = "forward"]
  /\ UNCHANGED <<dataVars, X_np, linreg, X_pt, y_pt, mixedreg, demo, conv>>

\* y_ = model(X); loss = loss_fn(y_, y); loss_history.append(loss.item())
PtForward ==
  /\ linmod.pc = "forward"
  /\ LET l == PtMSELoss(PtForwardOut(linmod.weight, linmod.bias, X), y)
     IN  linmod' = [linmod EXCEPT !.loss = l,
                                  !.loss_history = Append(@, l),
                                  !.pc = "backward"]
  /\ UNCHANGED <<dataVars, X_np, linreg, X_pt, y_pt, mixedreg, demo, conv>>

\* loss.backward()
PtBackward ==
  /\ linmod.pc = "backward"
  /\ linmod' = [linmod EXCEPT
       !.wgrad = Accumulate(@, PtWeightGrad(linmod.weight, linmod.bias, X, y)),
       !.bgrad = AccumulateVec(@, PtBiasGrad(linmod.weight, linmod.bias, X, y)),
       !.pc = "step"]
  /\ UNCHANGED <<dataVars, X_np, linreg, X_pt, y_pt, mixedreg, demo, conv>>

\* optimizer.step()
PtStep ==
  /\ linmod.pc = "step"
  /\ linmod' = [linmod EXCEPT
       !.weight = SGDStepWeight(@, linmod.wgrad),
       !.bias = SGDStepBias(@, linmod.bgrad),
       !.pc = "loop"]
  /\ UNCHANGED <<dataVars, X_np, linreg, X_pt, y_pt, mixedreg, demo, conv>>

\* return loss_history; the cell goes on with y_hat = evaluate(model, X) and
\* X_np = X.detach().numpy().
PtReturn ==
  /\ linmod.pc = "loop"
  /\ linmod.i = epochs
  /\ linmod' = [linmod EXCEPT !.pc = "done"]
  /\ X_np' = X
  /\ names' = [names EXCEPT !.X_np = "ndarray"]
  /\ UNCHANGED <<use_bias, X, y, epochs, n_targets, mlp, linreg, X_pt, y_pt,
                 mixedreg, demo, conv>>

(***************************************************************************)
(* Executing cells again, the dataset cell and the MLP cell.               *)
(***************************************************************************)
\* No cell is in the middle of its run.
Idle ==
  /\ linreg.pc \in Ended \cup {"start"}
  /\ mixedreg.pc \in Ended \cup {"start"}
  /\ linmod.pc \in Ended \cup {"start"}
\* The three training cells have been executed.
AllRan ==
  /\ linreg.pc \in Ended
  /\ mixedreg.pc \in Ended
  /\ linmod.pc \in Ended

NpCellRerun == AllRan /\ NpCell
MxCellRerun == AllRan /\ MxCell
PtCellRerun == AllRan /\ PtCell

\* make_moons(n_samples, noise=0.01, random_state=42): the same arrays on
\* every execution.
MoonsY == [i \in 1..Len(y) |-> IF names.y = "tensor" THEN y[i][1] ELSE y[i]]

\* The dataset cell: X, y = make_moons(...)
DatasetCell ==
  /\ Idle
  /\ X # None
  /\ y' = MoonsY
  /\ names' = [names EXCEPT !.X = "ndarray", !.y = "ndarray"]
  /\ UNCHANGED <<use_bias, X, epochs, n_targets, mlp, trainVars, demo, conv>>

\* Variant: an MLP cell that converts the X and y it finds instead of
\* generating them.
MlpCell_NoRegenerate ==
  /\ Idle
  /\ X # None
  /\ mlp.runs < MaxMlpRuns
  /\ IF IsNdarray(names.X) /\ IsNdarray(names.y)
       THEN /\ y' = [i \in 1..Len(y) |-> <<y[i]>>]
            /\ names' = [X |-> "tensor", y |-> "tensor", X_np |-> "ndarray"]
            /\ X_np' = X
            /\ mlp' = [runs |-> mlp.runs + 1, pc |-> "done"]
       ELSE /\ mlp' = [runs |-> mlp.runs + 1, pc |-> "TypeError"]
            /\ UNCHANGED <<y, names, X_np>>
  /\ UNCHANGED <<use_bias, X, epochs, n_targets, linreg, X_pt, y_pt, mixedreg,
                 linmod, demo, conv>>

\* The MLP cell: X, y = make_moons(...); X = torch.from_numpy(X)...; y =
\* torch.from_numpy(y).reshape((n_samples, 1)).float(); its own model,
\* optimizer and train; X_np = X.detach().numpy().
MlpCell ==
  /\ Idle
  /\ X # None
  /\ mlp.runs < MaxMlpRuns
  /\ y' = [i \in 1..Len(y) |-> <<MoonsY[i]>>]
  /\ names' = [X |-> "tensor", y |-> "tensor", X_np |-> "ndarray"]
  /\ X_np' = X
  /\ mlp' = [runs |-> mlp.runs + 1, pc |-> "done"]
  /\ UNCHANGED <<use_bias, X, epochs, n_targets, linreg, X_pt, y_pt, mixedreg,
                 linmod, demo, conv>>

(***************************************************************************)
(* The autodiff demo cells.  A tensor is its data (a sequence of numbers,  *)
(* of length 1 for a scalar; the demo's values are whole numbers) and its  *)
(* grad_fn: the operation that produced it together with its operands, or  *)
(* "leaf" for x once it requires grad, or "none" when no graph is kept.    *)
(***************************************************************************)
RECURSIVE ISum(_)
ISum(v) == IF v = <<>> THEN 0 ELSE v[1] + ISum(Tail(v))

Leaf(data) == [data |-> data, fn |-> [op |-> "leaf"]]
NoGraph(data) == [data |-> data, fn |-> [op |-> "none"]]
RequiresGrad(t) == t.fn.op # "none"
\* The result of an operation records a graph only if an operand requires grad.
Result(data, fn, operands) ==
  IF \E k \in 1..Len(operands) : RequiresGrad(operands[k])
    THEN [data |-> data, fn |-> fn]
    ELSE NoGraph(data)

\* torch.dot(a, b)
Dot(a, b) ==
  Result(<<ISum([k \in 1..Len(a.data) |-> a.data[k] * b.data[k]])>>,
         [op |-> "dot", a |-> a, b |-> b], <<a, b>>)
\* c * a for a Python number c
MulScalar(c, a) ==
  Result([k \in 1..Len(a.data) |-> c * a.data[k]],
         [op |-> "mulc", c |-> c, a |-> a], <<a>>)
\* a * b, elementwise
Mul(a, b) ==
  Result([k \in 1..Len(a.data) |-> a.data[k] * b.data[k]],
         [op |-> "mul", a |-> a, b |-> b], <<a, b>>)
\* a.sum()
Sum(a) == Result(<<ISum(a.data)>>, [op |-> "sum", a |-> a], <<a>>)
\* Variant: a detach that keeps the graph.
Detach_KeepsGraph(a) == a
\* a.detach(): the same data, no graph
Detach(a) == NoGraph(a.data)

IVAdd(u, v) == [k \in 1..Len(u) |-> u[k] + v[k]]
IVZeros(n) == [k \in 1..n |-> 0]

\* t.backward() seeded with `up`: what reverse mode adds to the .grad of the
\* leaf x (of length n), walking t's graph.
RECURSIVE Backward(_, _, _)
Backward(t, up, n) ==
  CASE t.fn.op = "leaf" -> up
    [] t.fn.op = "none" -> IVZeros(n)
    [] t.fn.op = "mulc" ->
         Backward(t.fn.a, [k \in 1..Len(up) |-> t.fn.c * up[k]], n)
    [] t.fn.op = "dot" ->
         IVAdd(Backward(t.fn.a, [k \in 1..Len(t.fn.b.data) |-> up[1] * t.fn.b.data[k]], n),
               Backward(t.fn.b, [k \in 1..Len(t.fn.a.data) |-> up[1] * t.fn.a.data[k]], n))
    [] t.fn.op = "mul" ->
         IVAdd(Backward(t.fn.a, [k \in 1..Len(up) |-> up[k] * t.fn.b.data[k]], n),
               Backward(t.fn.b, [k \in 1..Len(up) |-> up[k] * t.fn.a.data[k]], n))
    [] t.fn.op = "sum" ->
         Backward(t.fn.a, [k \in 1..Len(t.fn.a.data) |-> up[1]], n)

\* .grad accumulates: set by the first backward, added to by the later ones.
AccumulateGrad(grad, g) == IF grad = None THEN g ELSE IVAdd(grad, g)
\* Variant: a zero_() that zeroes nothing.
GradZero_Keep(grad) == grad
\* x.grad.zero_()
GradZero(grad) == IVZeros(Len(grad))

\* Variant: y = torch.dot(x, x), without the factor 2.
DemoY_NoFactor(x) == Dot(x, x)
\* y = 2 * torch.dot(x, x)
DemoY(x) == MulScalar(2, Dot(x, x))
\* y = x * x
DemoSquare(x) == Mul(x, x)
\* u = y.detach(); z = u * x
DemoU(yt) == Detach(yt)
DemoZ(u, x) == Mul(u, x)

\* The values x may hold; torch.arange(4.0) is <<0, 1, 2, 3>>.
DemoValues == {0, 1, 2, 3}

\* x = torch.arange(4.0): x.grad is None, nothing requires grad yet.
DemoStart(data) ==
  [pc |-> "requires_grad", x |-> NoGraph(data), grad |-> None, y |-> None,
   u |-> None, z |-> None, out |-> None, calls |-> <<>>]

\* x.requires_grad_(True); x.grad
DemoRequiresGrad ==
  /\ demo.pc = "requires_grad"
  /\ demo' = [demo EXCEPT !.x = Leaf(demo.x.data), !.pc = "dot"]
  /\ UNCHANGED <<dataVars, trainVars, conv>>

\* y = 2 * torch.dot(x, x)
DemoDot ==
  /\ demo.pc = "dot"
  /\ demo' = [demo EXCEPT !.y = DemoY(demo.x), !.pc = "backward"]
  /\ UNCHANGED <<dataVars, trainVars, conv>>

\* y.backward(); x.grad
DemoBackward ==
  /\ demo.pc = "backward"
  /\ demo' = [demo EXCEPT
                !.grad = AccumulateGrad(@, Backward(demo.y, <<1>>, Len(demo.x.data))),
                !.calls = Append(@, "2dot"),
                !.pc = "compare"]
  /\ UNCHANGED <<dataVars, trainVars, conv>>

\* x.grad == 4 * x
DemoCompare ==
  /\ demo.pc = "compare"
  /\ demo' = [demo EXCEPT
                !.out = [k \in 1..Len(demo.grad) |-> demo.grad[k] = 4 * demo.x.data[k]],
                !.pc = "detach"]
  /\ UNCHANGED <<dataVars, trainVars, conv>>

\* x.grad.zero_(); y = x * x; u = y.detach(); z = u * x;
\* z.sum().backward(); x.grad == u
DemoDetach ==
  /\ demo.pc = "detach"
  /\ LET yt == DemoSquare(demo.x)
         u == DemoU(yt)
         z == DemoZ(u, demo.x)
         g == AccumulateGrad(GradZero(demo.grad),
                             Backward(Sum(z), <<1>>, Len(demo.x.data)))
     IN  demo' = [demo EXCEPT
                    !.y = yt, !.u = u, !.z = z, !.grad = g,
                    !.calls = <<"z.sum">>,
                    !.out = [k \in 1..Len(g) |-> g[k] = u.data[k]],
                    !.pc = "second"]
  /\ UNCHANGED <<dataVars, trainVars, conv>>

\* x.grad.zero_(); y.sum().backward(); x.grad == 2 * x
DemoSecondBackward ==
  /\ demo.pc = "second"
  /\ LET g == AccumulateGrad(GradZero(demo.grad),
                             Backward(Sum(demo.y), <<1>>, Len(demo.x.data)))
     IN  demo' = [demo EXCEPT
                    !.grad = g,
                    !.calls = <<"y.sum">>,
                    !.out = [k \in 1..Len(g) |-> g[k] = 2 * demo.x.data[k]],
                    !.pc = "end"]
  /\ UNCHANGED <<dataVars, trainVars, conv>>

(***************************************************************************)
(* The conversion cell.  Memory is a sequence of buffers; X, A and B are   *)
(* references (buffer indices, 0 while the name is unbound).  X holds the  *)
(* flattened contents of the tensor built earlier in the notebook.         *)
(***************************************************************************)
Unbound == 0

\* Variant: a conversion that copies the buffer.
TensorNumpy_Copy(mem, ref) == [mem |-> Append(mem, mem[ref]), ref |-> Len(mem) + 1]
\* Tensor.numpy(): an ndarray over the tensor's own buffer.
TensorNumpy(mem, ref) == [mem |-> mem, ref |-> ref]
\* torch.from_numpy(): a tensor over the ndarray's own buffer.
FromNumpy(mem, ref) == [mem |-> mem, ref |-> ref]

\* What reading through a reference returns.
Contents(c, name) == c.mem[c[name]]

Names == {"X", "A", "B"}
ConvValues == {0, 1, 12}

ConvStart(data) ==
  [pc |-> "tensor", mem |-> <<data>>, X |-> 1, A |-> Unbound, B |-> Unbound,
   via |-> "none"]

\* A = X.numpy(); B = torch.from_numpy(A)
ConvConvert ==
  /\ conv.pc = "tensor"
  /\ LET a == TensorNumpy(conv.mem, conv.X)
         b == FromNumpy(a.mem, a.ref)
     IN  conv' = [conv EXCEPT !.mem = b.mem, !.A = a.ref, !.B = b.ref,
                              !.pc = "converted"]
  /\ UNCHANGED <<dataVars, trainVars, demo>>

\* An in-place write name[k] = v through any bound name.
ConvWrite ==
  /\ conv.pc \in {"tensor", "converted"}
  /\ \E name \in Names, k \in 1..Numel, v \in ConvValues :
       /\ conv[name] # Unbound
       /\ conv' = [conv EXCEPT !.mem[conv[name]][k] = v, !.via = name]
  /\ UNCHANGED <<dataVars, trainVars, demo>>

(***************************************************************************)
(* Specifications.                                                         *)
(***************************************************************************)
\* The dataset cell has run: X is (n_samples, n_features), y is (n_samples).
InitData ==
  /\ X \in [1..NumSamples -> FeatureRows]
  /\ y \in [1..NumSamples -> Labels]
  /\ epochs \in 0..MaxEpochs

InitTrain ==
  /\ X_np = None
  /\ linreg = NewLinReg
  /\ X_pt = None
  /\ y_pt = None
  /\ mixedreg = NewMixed
  /\ linmod = NewLinMod

NoDemo == [pc |-> "idle"]
NoConv == [pc |-> "idle"]

\* The training cells run top to bottom, use_bias = False as written.
Init ==
  /\ use_bias = FALSE
  /\ n_targets = 1
  /\ names = DatasetNames
  /\ mlp = NoMlp
  /\ InitData
  /\ InitTrain
  /\ demo = NoDemo
  /\ conv = NoConv

NpTrain == NpUpdateWeight \/ NpAppendLoss \/ NpReturn
MxTrain == MxForward \/ MxBackward \/ MxUpdateWeight \/ MxZeroGrad \/ MxReturn
PtTrain == PtZeroGrad \/ PtForward \/ PtBackward \/ PtStep \/ PtReturn

Next ==
  \/ NpCellSetup \/ NpTrain
  \/ MxCellSetup \/ MxTrain
  \/ PtCellSetup \/ PtTrain

Spec == Init /\ [][Next]_vars


\* The two classes side by side: both constructed with n_features = 2,
\* n_targets = 1, lr = 0.01 and training on the same X and y, in any
\* interleaving of their steps.
InitEquiv ==
  /\ use_bias = FALSE
  /\ n_targets = 1
  /\ names = [DatasetNames EXCEPT !.X_np = "ndarray"]
  /\ mlp = NoMlp
  /\ InitData
  /\ X_np = X
  /\ linreg = [pc |-> "loop", W |-> NpInitW(n_targets, NumFeatures), i |-> 0,
               loss_history |-> <<>>]
  /\ X_pt = X
  /\ y_pt = y
  /\ mixedreg = [pc |-> "loop", W |-> MxInitW(n_targets, NumFeatures), grad |-> None,
                 loss |-> None, i |-> 0, loss_history |-> <<>>]
  /\ linmod = NewLinMod
  /\ demo = NoDemo
  /\ conv = NoConv

NextEquiv == NpTrain \/ MxTrain

SpecEquiv == InitEquiv /\ [][NextEquiv]_vars

\* The NumPy cell with the use_bias flag set either way.
InitUseBias ==
  /\ use_bias \in BOOLEAN
  /\ n_targets = 1
  /\ names = DatasetNames
  /\ mlp = NoMlp
  /\ InitData
  /\ InitTrain
  /\ demo = NoDemo
  /\ conv = NoConv

SpecBias == InitUseBias /\ [][Next]_vars

\* The two classes constructed with any n_targets in 1..MaxTargets and
\* trained, one cell after the other, on the dataset's X and y.
InitTargets ==
  /\ use_bias = FALSE
  /\ names = DatasetNames
  /\ mlp = NoMlp
  /\ n_targets \in 1..MaxTargets
  /\ InitData
  /\ InitTrain
  /\ demo = NoDemo
  /\ conv = NoConv

NextTargets ==
  \/ NpCellSetup \/ NpTrain
  \/ MxCellSetup \/ MxTrain

SpecTargets == InitTargets /\ [][NextTargets]_vars

\* The cells executed in any order and any number of times once the dataset
\* cell has run: the three training cells top to bottom first, then again in
\* any order, with the dataset cell and the MLP cell in between.
NextOrder ==
  \/ Next
  \/ NpCellRerun \/ MxCellRerun \/ PtCellRerun
  \/ DatasetCell \/ MlpCell

\* One dataset of alternating rows with any labels.
InitOrder ==
  /\ use_bias = FALSE
  /\ n_targets = 1
  /\ names = DatasetNames
  /\ mlp = NoMlp
  /\ X = [i \in 1..NumSamples |->
            IF i % 2 = 1 THEN <<R(5), R(0)>> ELSE <<R(-5), R(5)>>]
  /\ y \in [1..NumSamples -> Labels]
  /\ epochs \in 0..MaxEpochs
  /\ InitTrain
  /\ demo = NoDemo
  /\ conv = NoConv

SpecOrder == InitOrder /\ [][NextOrder]_vars

(***************************************************************************)
(* Reference definitions the claims are stated with: full-batch gradient   *)
(* descent on the mean squared error of a linear model theta over the      *)
(* design matrix Xe, written component by component.                       *)
(***************************************************************************)
RefResidual(theta, Xe, yv, i) == RSub(VDot(Xe[i], theta), yv[i])

RefLoss(theta, Xe, yv) ==
  RMul(Norm(1, Rows(Xe)),
       RSum([i \in 1..Rows(Xe) |->
               RMul(RefResidual(theta, Xe, yv, i), RefResidual(theta, Xe, yv, i))]))

RefGrad(theta, Xe, yv) ==
  [j \in 1..Len(theta) |->
     RMul(Norm(2, Rows(Xe)),
          RSum([i \in 1..Rows(Xe) |->
                  RMul(Xe[i][j], RefResidual(theta, Xe, yv, i))]))]

RefStep(theta, Xe, yv, rate) ==
  [j \in 1..Len(theta) |-> RSub(theta[j], RMul(rate, RefGrad(theta, Xe, yv)[j]))]

RECURSIVE RefIter(_, _, _, _, _)
RefIter(theta, Xe, yv, rate, k) ==
  IF k = 0 THEN theta ELSE RefStep(RefIter(theta, Xe, yv, rate, k - 1), Xe, yv, rate)

\* The labels as a vector, whether or not the Full PyTorch cell has reshaped y.
YVec == [i \in 1..Len(y) |-> IF linmod.pc = "start" THEN y[i] ELSE y[i][1]]

\* Parameter updates applied so far by each train call.
NpEpochsDone == linreg.i
MxEpochsDone ==
  IF mixedreg.pc \in {"backward", "update"} THEN mixedreg.i - 1 ELSE mixedreg.i
PtEpochsDone ==
  IF linmod.pc \in {"forward", "backward", "step"} THEN linmod.i - 1 ELSE linmod.i

NpRunning == linreg.pc \in {"loop", "loss"}
MxRunning == mixedreg.pc \in {"loop", "backward", "update", "zero"}
PtRunning == linmod.pc \in {"loop", "forward", "backward", "step"}

\* theta = (bias, weight) of LinReg, for the design matrix [1 | X].
PtTheta == linmod.bias \o linmod.weight[1]


(***************************************************************************)
(* Claims.                                                                 *)
(***************************************************************************)
ZeroW == <<VZeros(NumFeatures)>>

C2_Bump(W, j, d) == <<[k \in 1..Len(W[1]) |-> IF k = j THEN RAdd(W[1][k], d) ELSE W[1][k]]>>

C2_UpdateIsGradientStep ==
  [][(linreg.pc = "loop" /\ linreg'.pc = "loss") =>
       LET W == linreg.W
           g == RefGrad(W[1], X_np, y)
       IN  /\ linreg'.W = <<[j \in 1..Len(W[1]) |-> RSub(W[1][j], RMul(lr, g[j]))]>>
           /\ \A j \in 1..Len(W[1]) :
                g[j] = RDivInt(RSub(NpLoss(C2_Bump(W, j, One), X_np, y),
                                    NpLoss(C2_Bump(W, j, R(-1)), X_np, y)), 2)]_vars

\* update_weight has just run on nonzero weights and has changed them again.
C2_Witness ==
  /\ linreg.pc = "loss"
  /\ linreg.i = 2
  /\ linreg.W # ZeroW
  /\ linreg.W[1] # RefIter(VZeros(NumFeatures), X_np, y, lr, 1)

\* C3: each of the three train routines runs exactly `epochs` iterations
\* without raising and returns; every iteration applies exactly one update,
\* computed from all examples of X at once, and appends its loss, so that
\* loss_history has `epochs` entries in epoch order; with epochs = 0 the
\* history is empty and the parameters are the initial ones.
C3_NoRaise ==
  /\ linreg.pc \in {"start", "loop", "loss", "done"}
  /\ mixedreg.pc \in {"start", "loop", "backward", "update", "zero", "done"}
  /\ linmod.pc \in {"start", "loop", "forward", "backward", "step", "done"}

C3_Counts ==
  /\ linreg.pc # "start" =>
       /\ linreg.i <= epochs
       /\ Len(linreg.loss_history) = IF linreg.pc = "loss" THEN linreg.i - 1 ELSE linreg.i
       /\ linreg.pc = "done" => Len(linreg.loss_history) = epochs
       /\ epochs = 0 => (linreg.loss_history = <<>> /\ linreg.W = ZeroW)
  /\ mixedreg.pc # "start" =>
       /\ mixedreg.i <= epochs
       /\ Len(mixedreg.loss_history) =
            IF mixedreg.pc = "backward" THEN mixedreg.i - 1 ELSE mixedreg.i
       /\ mixedreg.pc = "done" => Len(mixedreg.loss_history) = epochs
       /\ epochs = 0 => (mixedreg.loss_history = <<>> /\ mixedreg.W = ZeroW)
  /\ linmod.pc # "start" =>
       /\ linmod.i <= epochs
       /\ Len(linmod.loss_history) =
            IF linmod.pc = "forward" THEN linmod.i - 1 ELSE linmod.i
       /\ linmod.pc = "done" => Len(linmod.loss_history) = epochs
       /\ epochs = 0 =>
            /\ linmod.loss_history = <<>>
            /\ linmod.weight[1] \in InitBetaWeights
            /\ linmod.bias = InitBetaBias

\* Steps left before a train call returns: 2 (NumPy) or 4 (the others) per
\* iteration still to run, plus the rest of the current iteration.
C3_NpLeft(m) ==
  2 * (epochs - m.i) + (CASE m.pc = "loop" -> 1 [] m.pc = "loss" -> 2 [] OTHER -> 0)
C3_MxLeft(m) ==
  4 * (epochs - m.i)
    + (CASE m.pc = "loop" -> 1 [] m.pc = "backward" -> 4 [] m.pc = "update" -> 3
         [] m.pc = "zero" -> 2 [] OTHER -> 0)
C3_PtLeft(m) ==
  4 * (epochs - m.i)
    + (CASE m.pc = "loop" -> 1 [] m.pc = "forward" -> 4 [] m.pc = "backward" -> 3
         [] m.pc = "step" -> 2 [] OTHER -> 0)

\* Every step of a train call is one step nearer to its return; the
\* parameters change in one step per iteration only, by the full-batch
\* gradient step; the loss appended is the loss of the current iteration.
C3_NpStep ==
  (linreg.pc # "start" /\ linreg' # linreg) =>
    /\ C3_NpLeft(linreg') = C3_NpLeft(linreg) - 1
    /\ linreg'.i \in {linreg.i, linreg.i + 1}
    /\ IF linreg'.i = linreg.i + 1
         THEN linreg'.W[1] = RefStep(linreg.W[1], X_np, YVec, lr)
         ELSE linreg'.W = linreg.W
    /\ IF linreg.pc = "loss"
         THEN linreg'.loss_history =
                Append(linreg.loss_history, RefLoss(linreg.W[1], X_np, YVec))
         ELSE linreg'.loss_history = linreg.loss_history

C3_MxStep ==
  (mixedreg.pc # "start" /\ mixedreg' # mixedreg) =>
    /\ C3_MxLeft(mixedreg') = C3_MxLeft(mixedreg) - 1
    /\ IF mixedreg.pc = "update"
         THEN mixedreg'.W[1] = RefStep(mixedreg.W[1], X_pt, y_pt, lr)
         ELSE mixedreg'.W = mixedreg.W
    /\ IF mixedreg.pc = "backward"
         THEN mixedreg'.loss_history =
                Append(mixedreg.loss_history, RefLoss(mixedreg.W[1], X_pt, y_pt))
         ELSE mixedreg'.loss_history = mixedreg.loss_history

C3_PtStep ==
  (linmod.pc # "start" /\ linmod' # linmod) =>
    /\ C3_PtLeft(linmod') = C3_PtLeft(linmod) - 1
    /\ IF linmod.pc = "step"
         THEN linmod'.bias \o linmod'.weight[1]
                = RefStep(PtTheta, HStackOnes(X), YVec, lr)
         ELSE linmod'.bias = linmod.bias /\ linmod'.weight = linmod.weight
    /\ IF linmod.pc = "forward"
         THEN linmod'.loss_history =
                Append(linmod.loss_history, RefLoss(PtTheta, HStackOnes(X), YVec))
         ELSE linmod'.loss_history = linmod.loss_history

C3_BatchGradientDescent ==
  /\ [](C3_NoRaise /\ C3_Counts)
  /\ [][C3_NpStep /\ C3_MxStep /\ C3_PtStep]_vars

\* All three train calls have returned after MaxEpochs epochs each.
C3_Witness ==
  /\ linreg.pc = "done"
  /\ mixedreg.pc = "done"
  /\ linmod.pc = "done"
  /\ epochs = MaxEpochs
  /\ Len(linmod.loss_history) = MaxEpochs

\* C4: each epoch of train(model, X, y) changes the weight and the bias of
\* LinReg to p - lr * dL/dp with lr = 0.01 and L the mean squared error of
\* model(X) against y: LinearRegression.update_weight on [1 | X].
C4_SGDIsUpdateWeight ==
  [][(linmod.pc = "step" /\ linmod'.pc = "loop") =>
       LET Xe == HStackOnes(X)
       IN  /\ linmod'.bias \o linmod'.weight[1]
                = RefStep(PtTheta, Xe, YVec, <<1, 100>>)
           /\ <<linmod'.bias \o linmod'.weight[1]>> = NpUpdateW(<<PtTheta>>, Xe, YVec)]_vars

\* A second optimizer.step() has changed both the weight and the bias.
C4_Witness ==
  /\ linmod.pc = "loop"
  /\ linmod.i = 2
  /\ \E w \in InitBetaWeights :
       LET first == RefIter(InitBetaBias \o w, HStackOnes(X), YVec, lr, 1)
       IN  /\ PtTheta[1] # first[1]
           /\ PtTheta[2] # first[2]
           /\ PtTheta = RefStep(first, HStackOnes(X), YVec, lr)

\* C5: at every parameter update the gradient a parameter holds is the
\* gradient of the loss of that same iteration only; MixedLinearRegression
\* zeroes W.grad after each update, train zeroes (or unsets) the gradients
\* before each forward pass, and update_weight never sees an unset W.grad.
C5_NoAccumulation ==
  /\ mixedreg.pc # "AttributeError"
  /\ mixedreg.pc = "update" =>
       /\ mixedreg.grad # None
       /\ mixedreg.grad = <<RefGrad(mixedreg.W[1], X_pt, y_pt)>>
  /\ (mixedreg.pc \in {"loop", "backward", "done"} /\ mixedreg.i >= 1 /\ MxEpochsDone >= 1) =>
       mixedreg.grad = ZeroW
  /\ linmod.pc = "step" =>
       LET g == RefGrad(PtTheta, HStackOnes(X), YVec)
       IN  /\ linmod.bgrad = <<g[1]>>
           /\ linmod.wgrad = <<Tail(g)>>
  /\ linmod.pc \in {"forward", "backward"} =>
       /\ linmod.wgrad \in {None, ZeroW}
       /\ linmod.bgrad \in {None, <<Zero>>}

\* Second-epoch updates about to happen on gradients that are not zero, in
\* both loops.
C5_WitnessMx ==
  /\ mixedreg.pc = "update"
  /\ mixedreg.i = 2
  /\ mixedreg.grad # ZeroW
  /\ mixedreg.W # ZeroW

C5_Witness ==
  /\ linmod.pc = "step"
  /\ linmod.i = 2
  /\ linmod.wgrad # ZeroW
  /\ linmod.bgrad # <<Zero>>
  /\ mixedreg.loss_history # <<>>
  /\ mixedreg.W # ZeroW

\* C10: with use_bias = True the NumPy cell trains on [1 | X], the model has
\* one weight more than X has columns, and training runs to completion.
C10_BiasTrains ==
  (use_bias /\ linreg.pc # "start") =>
    /\ X_np = HStackOnes(X)
    /\ linreg.pc \in {"loop", "loss", "done"}
    /\ Cols(linreg.W) = Cols(X) + 1


(***************************************************************************)
(* The autodiff demo on its own: no dataset, no training cell has run.     *)
(***************************************************************************)
NoData ==
  /\ use_bias = FALSE
  /\ n_targets = 1
  /\ names = NoNames
  /\ mlp = NoMlp
  /\ X = None
  /\ y = None
  /\ epochs = 0

InitDemo ==
  /\ NoData
  /\ InitTrain
  /\ demo \in {DemoStart(d) : d \in [1..DemoLen -> DemoValues]}
  /\ conv = NoConv

NextDemo ==
  \/ DemoRequiresGrad \/ DemoDot \/ DemoBackward \/ DemoCompare
  \/ DemoDetach \/ DemoSecondBackward

SpecDemo == InitDemo /\ [][NextDemo]_vars

AllTrue(out) == \A k \in 1..Len(out) : out[k]

\* C6: after y = 2 * dot(x, x) and y.backward() on a fresh x, x.grad equals
\* 4 * x in every component and the displayed comparison is True everywhere.
C6_GradIs4x ==
  /\ demo.pc = "compare" =>
       \A k \in 1..DemoLen : demo.grad[k] = 4 * demo.x.data[k]
  /\ demo.pc = "detach" => (Len(demo.out) = DemoLen /\ AllTrue(demo.out))

\* The comparison has been displayed for x = arange(4.0), whose gradient is
\* not zero.
C6_Witness ==
  /\ demo.pc = "detach"
  /\ demo.x.data = [k \in 1..DemoLen |-> k - 1]
  /\ demo.grad[DemoLen] = 4 * (DemoLen - 1)

\* C7: with y = x * x, u = y.detach() and z = u * x, after zeroing x.grad and
\* z.sum().backward(), x.grad equals u (x_i^2) in every component, not the
\* derivative 3 * x_i^2 of x^3.
C7_DetachedIsConstant ==
  demo.pc = "second" =>
    /\ \A k \in 1..DemoLen :
         /\ demo.u.data[k] = demo.x.data[k] * demo.x.data[k]
         /\ demo.grad[k] = demo.u.data[k]
         /\ demo.x.data[k] # 0 => demo.grad[k] # 3 * demo.x.data[k] * demo.x.data[k]
    /\ AllTrue(demo.out)

C7_Witness ==
  /\ demo.pc = "second"
  /\ demo.x.data = [k \in 1..DemoLen |-> k - 1]
  /\ demo.grad[DemoLen] = (DemoLen - 1) * (DemoLen - 1)

\* C8: x.grad is always the sum of the gradients of the backward calls made
\* since the last x.grad.zero_() (4x for 2*dot(x, x), x^2 for (u*x).sum(),
\* 2x for (x*x).sum()); y keeps its own graph, so the final
\* y.sum().backward() leaves x.grad = 2 * x in every component.
C8_GradOf(call, xi) ==
  CASE call = "2dot" -> 4 * xi
    [] call = "z.sum" -> xi * xi
    [] call = "y.sum" -> 2 * xi

C8_GradIsSumSinceZero ==
  /\ (demo.pc # "idle" /\ demo.grad = None) => demo.calls = <<>>
  /\ (demo.pc # "idle" /\ demo.grad # None) =>
       \A k \in 1..DemoLen :
         demo.grad[k] =
           ISum([c \in 1..Len(demo.calls) |-> C8_GradOf(demo.calls[c], demo.x.data[k])])
  /\ demo.pc = "end" =>
       /\ RequiresGrad(demo.y)
       /\ \A k \in 1..DemoLen : demo.grad[k] = 2 * demo.x.data[k]
       /\ AllTrue(demo.out)

C8_Witness ==
  /\ demo.pc = "end"
  /\ demo.x.data = [k \in 1..DemoLen |-> k - 1]
  /\ demo.grad[DemoLen] = 2 * (DemoLen - 1)
  /\ demo.u.data[DemoLen] = (DemoLen - 1) * (DemoLen - 1)


(***************************************************************************)
(* The conversion cell on its own.                                         *)
(***************************************************************************)
InitConv ==
  /\ NoData
  /\ InitTrain
  /\ demo = NoDemo
  /\ conv \in {ConvStart(d) : d \in [1..Numel -> ConvValues]}

NextConv == ConvConvert \/ ConvWrite

SpecConv == InitConv /\ [][NextConv]_vars

C11_AnyTargets ==
  /\ linreg.pc # "start" =>
       /\ Rows(linreg.W) = n_targets
       /\ Cols(linreg.W) = NumFeatures
       /\ linreg.pc \in {"loop", "loss", "done"}
  /\ mixedreg.pc # "start" =>
       /\ Rows(mixedreg.W) = n_targets
       /\ Cols(mixedreg.W) = NumFeatures
       /\ mixedreg.pc \in {"loop", "backward", "update", "zero", "done"}


\* C12: the training cells depend on what X and y are bound to.  X and y
\* are rebound together: to ndarrays by the dataset cell only, to tensors by
\* the Full PyTorch cell and by the MLP cell.  While they are tensors, the
\* NumPy cell fails at its first np.dot, and the autograd and Full PyTorch
\* cells fail before they construct a model; bound to ndarrays the cells
\* start and run to their end.  The MLP cell runs whatever X and y are bound
\* to, every time it is executed.
C12_IdlePc == Ended \cup {"start"}

C12_NumPyCell ==
  /\ (linreg.pc \in C12_IdlePc /\ linreg' # linreg) =>
       /\ linreg'.pc = "loop"
       /\ names'.X_np = names.X
  /\ (linreg.pc \in {"loop", "loss"} /\ linreg' # linreg) =>
       IF names.X_np = "tensor"
         THEN /\ linreg'.pc = "RuntimeError"
              /\ linreg'.W = linreg.W
              /\ linreg'.loss_history = linreg.loss_history
         ELSE linreg'.pc \in {"loop", "loss", "done"}

C12_AutogradCell ==
  /\ (mixedreg.pc \in C12_IdlePc /\ names.y = "tensor") =>
       \/ mixedreg' = mixedreg
       \/ mixedreg'.pc = "TypeError" /\ mixedreg'.W = mixedreg.W
  /\ (/\ mixedreg.pc \in C12_IdlePc
      /\ names.y = "ndarray"
      /\ names.X_np = "ndarray"
      /\ mixedreg' # mixedreg) => mixedreg'.pc = "loop"
  /\ (mixedreg.pc \notin C12_IdlePc /\ mixedreg' # mixedreg) =>
       mixedreg'.pc \in {"loop", "backward", "update", "zero", "done"}

C12_TorchCell ==
  /\ (linmod.pc \in C12_IdlePc /\ names.X = "tensor") =>
       \/ linmod' = linmod
       \/ /\ linmod'.pc = "TypeError"
          /\ linmod'.weight = linmod.weight
          /\ names' = names
  /\ (linmod.pc \in C12_IdlePc /\ names.X = "ndarray" /\ linmod' # linmod) =>
       /\ linmod'.pc = "loop"
       /\ names'.X = "tensor"
       /\ names'.y = "tensor"
  /\ (linmod.pc \notin C12_IdlePc /\ linmod' # linmod) =>
       linmod'.pc \in {"loop", "forward", "backward", "step", "done"}

C12_Rebinding ==
  /\ (names.X = "tensor" /\ names'.X = "ndarray") =>
       /\ names'.y = "ndarray"
       /\ UNCHANGED <<trainVars, mlp>>
  /\ mlp' # mlp =>
       /\ mlp'.runs = mlp.runs + 1
       /\ mlp'.pc = "done"
       /\ names'.X = "tensor"
       /\ names'.y = "tensor"
       /\ UNCHANGED <<linreg, mixedreg, linmod>>

C12_OrderDependence ==
  /\ [](names.X = names.y /\ names.X \in {"ndarray", "tensor"})
  /\ [][C12_NumPyCell /\ C12_AutogradCell /\ C12_TorchCell /\ C12_Rebinding]_vars

\* The Full PyTorch cell has trained once; afterwards each of the three
\* training cells has been executed again and has failed, and the MLP cell
\* has been executed MaxMlpRuns times.
C12_Witness ==
  /\ mlp.runs = MaxMlpRuns
  /\ names.X = "tensor"
  /\ linreg.pc = "RuntimeError"
  /\ mixedreg.pc = "TypeError"
  /\ linmod.pc = "TypeError"
  /\ epochs = MaxEpochs
  /\ Len(linmod.loss_history) = MaxEpochs

=============================================================================
